---- MODULE Spec2Model ----
(***************************************************************************)
(* Amortization engine of streamlit_app.py: calculate_monthly_payment,     *)
(* amortization_schedule, amortization_schedule_with_payoffs,              *)
(* amortization_refinance and the composition done by main().              *)
(*                                                                         *)
(* Money, rates and years are exact rationals <<num, den>> (den > 0,       *)
(* lowest terms): the arithmetic of the source is followed operation by    *)
(* operation, with the real-number value of every float operation (IEEE    *)
(* rounding is not modelled).  A division by zero is the pair <<s, 0>>, s   *)
(* the sign of the numerator: Python floats raise ZeroDivisionError on it,  *)
(* numpy.float64 operands give nan (s = 0) or inf (s # 0).                  *)
(***************************************************************************)
EXTENDS Integers, Sequences, FiniteSets, TLC

VARIABLES
    call, ret,          \* one call of an engine function: arguments, result
    pc,                 \* where main() stands
    sliders,            \* the slider values main() read
    baseline, pre_refi, \* main's first two schedules
    snap,               \* bal_post, cum_int_pre, cum_pay_pre, rem_years
    new_std,            \* the refinanced standard payment
    refi_std, refi_extra

vars == <<call, ret, pc, sliders, baseline, pre_refi, snap, new_std, refi_std, refi_extra>>

fvars == <<call, ret>>
mvars == <<pc, sliders, baseline, pre_refi, snap, new_std, refi_std, refi_extra>>

(* ---------------- bounds of the model ---------------- *)
MaxPrincipal == 3
MaxYears == 1
MaxExtra == 2
MaxLump == 3
MaxPayment == 4
MaxStart == 2
MaxOffset == 1

\* annual rates tried: 0 (degenerate) and 12 (monthly rate 1, so that
\* (1 + monthly_rate)^n stays a machine integer for n = 12 * years)
RateSet == {0, 12}
PositiveRates == RateSet \ {0}
\* terms tried by main (slider "Loan Duration (years)", lower end)
MainYears == {1}

(* ---------------- exact rational arithmetic ---------------- *)
RECURSIVE GCD(_, _)
GCD(a, b) == IF b = 0 THEN a ELSE GCD(b, a % b)

Abs(a) == IF a < 0 THEN -a ELSE a

Norm(n, d) == LET g == GCD(Abs(n), d) IN <<n \div g, d \div g>>

RInt(k) == <<k, 1>>
Zero == RInt(0)
One == RInt(1)

RAdd(x, y) ==
    LET g == GCD(x[2], y[2])
    IN  Norm(x[1] * (y[2] \div g) + y[1] * (x[2] \div g), (x[2] \div g) * y[2])

RNeg(x) == <<-x[1], x[2]>>

RSub(x, y) == RAdd(x, RNeg(y))

RMul(x, y) ==
    LET g1 == GCD(Abs(x[1]), y[2])
        g2 == GCD(Abs(y[1]), x[2])
    IN  IF x[1] = 0 \/ y[1] = 0 THEN Zero
        ELSE <<(x[1] \div g1) * (y[1] \div g2), (x[2] \div g2) * (y[2] \div g1)>>

\* y # 0
RInv(y) == IF y[1] < 0 THEN <<-y[2], -y[1]>> ELSE <<y[2], y[1]>>

RDiv(x, y) == RMul(x, RInv(y))

RLt(x, y) ==
    LET g == GCD(x[2], y[2])
    IN  x[1] * (y[2] \div g) < y[1] * (x[2] \div g)

RLe(x, y) == ~RLt(y, x)

RMin(x, y) == IF RLt(y, x) THEN y ELSE x

\* x ** n for an integer n >= 0
RECURSIVE RPow(_, _)
RPow(x, n) == IF n = 0 THEN One ELSE RMul(x, RPow(x, n - 1))

\* int(x): truncation, x >= 0
RFloor(x) == x[1] \div x[2]

Sign(a) == IF a < 0 THEN -1 ELSE IF a > 0 THEN 1 ELSE 0

\* the outcome of x / 0
DivByZero(x) == <<Sign(x[1]), 0>>
IsDivByZero(v) == v[2] = 0
NaN == <<0, 0>>

\* lump_sum_month=None
None == -1

\* what a call hands back: a frame (a sequence of rows; a lone number is a
\* one-row frame with the column Payment), or ZeroDivisionError raised
Returned(v) == [raised |-> FALSE, value |-> v]
ZeroDivisionError == [raised |-> TRUE, value |-> <<>>]

(* ---------------- calculate_monthly_payment ---------------- *)
\* years * 12 is a whole number in every call made here
calculate_monthly_payment(principal, annual_interest_rate, years) ==
    LET monthly_rate == RDiv(annual_interest_rate, RInt(12))
        n_payments == RFloor(RMul(years, RInt(12)))
        denom == RSub(One, RInv(RPow(RAdd(One, monthly_rate), n_payments)))
    IN  IF denom = Zero THEN DivByZero(RMul(monthly_rate, principal))
        ELSE RDiv(RMul(monthly_rate, principal), denom)

(* ---------------- DataFrame helpers ---------------- *)
RECURSIVE CumSum(_, _, _)
\* Series.cumsum(): the running sums of column f over rows 1..i
CumSum(rows, f, i) ==
    IF i = 0 THEN <<>>
    ELSE IF i = 1 THEN <<rows[1][f]>>
    ELSE LET prev == CumSum(rows, f, i - 1)
         IN  Append(prev, RAdd(prev[i - 1], rows[i][f]))

\* lines 32-40: the frame of the appended rows, with Month = 1..len and the
\* two cumsum columns
DataFrame(rows) ==
    LET cum_interest == CumSum(rows, "Interest", Len(rows))
        cum_payment == CumSum(rows, "Payment", Len(rows))
    IN
    [i \in 1..Len(rows) |->
        [Month |-> i,
         Balance |-> rows[i].Balance,
         Interest |-> rows[i].Interest,
         Principal |-> rows[i].Principal,
         Payment |-> rows[i].Payment,
         CumulativeInterest |-> cum_interest[i],
         CumulativePayment |-> cum_payment[i]]]

\* lines 72-81: the same frame with the principal split in two columns
DataFrameWithPayoffs(rows) ==
    LET cum_interest == CumSum(rows, "Interest", Len(rows))
        cum_payment == CumSum(rows, "Payment", Len(rows))
    IN
    [i \in 1..Len(rows) |->
        [Month |-> i,
         Balance |-> rows[i].Balance,
         Interest |-> rows[i].Interest,
         ScheduledPrincipal |-> rows[i].ScheduledPrincipal,
         ExtraPrincipal |-> rows[i].ExtraPrincipal,
         Payment |-> rows[i].Payment,
         CumulativeInterest |-> cum_interest[i],
         CumulativePayment |-> cum_payment[i]]]

(* ---------------- amortization_schedule ---------------- *)
\* one pass of the loop body; the row appended for this month
schedule_month(balance, payment, monthly_rate) ==
    LET interest == RMul(balance, monthly_rate)
        principal_payment == RSub(payment, interest)
        clamp == RLt(balance, principal_payment)
        paid == IF clamp THEN balance ELSE principal_payment
    IN  [Balance |-> RSub(balance, paid),
         Interest |-> interest,
         Principal |-> paid,
         Payment |-> IF clamp THEN RAdd(interest, paid) ELSE payment]

\* range(1, n_payments): the last month is never simulated
schedule_range_short(n_payments) == 1..(n_payments - 1)

\* months of the loop: range(1, n_payments + 1)
schedule_range(n_payments) == 1..n_payments

RECURSIVE schedule_loop(_, _, _, _, _, _)
schedule_loop(rows, balance, month, n_payments, payment, monthly_rate) ==
    IF month \notin schedule_range(n_payments) THEN rows
    ELSE LET row == schedule_month(balance, payment, monthly_rate)
         IN  IF RLe(row.Balance, Zero) THEN Append(rows, row)
             ELSE schedule_loop(Append(rows, row), row.Balance, month + 1,
                                n_payments, payment, monthly_rate)

amortization_schedule(principal, annual_interest_rate, years) ==
    LET monthly_rate == RDiv(annual_interest_rate, RInt(12))
        n_payments == RFloor(RMul(years, RInt(12)))
        payment == calculate_monthly_payment(principal, annual_interest_rate, years)
    IN  IF IsDivByZero(payment) THEN ZeroDivisionError
        ELSE Returned(DataFrame(schedule_loop(<<>>, principal, 1, n_payments,
                                              payment, monthly_rate)))

(* ---------------- amortization_schedule_with_payoffs ---------------- *)
\* the lump sum lands one month late
lump_applies_late(month, lump_sum_month) ==
    lump_sum_month \notin {None, 0} /\ month = lump_sum_month + 1

\* the truthiness test is lost and the month is taken as a 0-based index
lump_applies_zero_based(month, lump_sum_month) ==
    lump_sum_month # None /\ month - 1 = lump_sum_month

\* `if lump_sum_month and month == lump_sum_month`
lump_applies(month, lump_sum_month) ==
    lump_sum_month \notin {None, 0} /\ month = lump_sum_month

\* the clamp on payoff is missing
payoff_split_unclamped(sched_principal, extra, balance) ==
    [total |-> RAdd(sched_principal, extra), sched |-> sched_principal, extra |-> extra]

\* the scheduled part is not re-derived after the clamp
payoff_split_no_rederive(sched_principal, extra, balance) ==
    LET total_principal == RAdd(sched_principal, extra)
    IN  IF RLt(balance, total_principal)
        THEN [total |-> balance, sched |-> sched_principal,
              extra |-> RSub(balance, sched_principal)]
        ELSE [total |-> total_principal, sched |-> sched_principal, extra |-> extra]

\* lines 58-62: the total principal and its split, clamped to the balance
payoff_split(sched_principal, extra, balance) ==
    LET total_principal == RAdd(sched_principal, extra)
    IN  IF RLt(balance, total_principal)
        THEN LET sched == RMin(sched_principal, balance)
             IN  [total |-> balance, sched |-> sched, extra |-> RSub(balance, sched)]
        ELSE [total |-> total_principal, sched |-> sched_principal, extra |-> extra]

payoffs_month(balance, month, base_payment, monthly_rate, monthly_extra_payment, lump_sum_month, lump_sum_amount) ==
    LET interest == RMul(balance, monthly_rate)
        sched_principal == RSub(base_payment, interest)
        extra == IF lump_applies(month, lump_sum_month)
                 THEN RAdd(monthly_extra_payment, lump_sum_amount)
                 ELSE monthly_extra_payment
        split == payoff_split(sched_principal, extra, balance)
    IN  [Balance |-> RSub(balance, split.total),
         Interest |-> interest,
         ScheduledPrincipal |-> split.sched,
         ExtraPrincipal |-> split.extra,
         Payment |-> RAdd(interest, split.total)]

\* `if balance <= 0: break`
payoffs_break(balance) == RLe(balance, Zero)

RECURSIVE payoffs_loop(_, _, _, _, _, _, _, _, _)
payoffs_loop(rows, balance, month, n_payments, base_payment, monthly_rate, monthly_extra_payment, lump_sum_month, lump_sum_amount) ==
    IF month \notin 1..n_payments THEN rows
    ELSE LET row == payoffs_month(balance, month, base_payment, monthly_rate,
                                  monthly_extra_payment, lump_sum_month,
                                  lump_sum_amount)
         IN  IF payoffs_break(row.Balance) THEN Append(rows, row)
             ELSE payoffs_loop(Append(rows, row), row.Balance, month + 1,
                               n_payments, base_payment, monthly_rate,
                               monthly_extra_payment, lump_sum_month,
                               lump_sum_amount)

amortization_schedule_with_payoffs(principal, annual_interest_rate, years, monthly_extra_payment, lump_sum_month, lump_sum_amount) ==
    LET monthly_rate == RDiv(annual_interest_rate, RInt(12))
        n_payments == RFloor(RMul(years, RInt(12)))
        base_payment == calculate_monthly_payment(principal, annual_interest_rate, years)
    IN  IF IsDivByZero(base_payment) THEN ZeroDivisionError
        ELSE Returned(DataFrameWithPayoffs(payoffs_loop(<<>>, principal, 1, n_payments,
                                             base_payment, monthly_rate,
                                             monthly_extra_payment,
                                             lump_sum_month, lump_sum_amount)))

(* ---------------- amortization_refinance ---------------- *)
\* the principal part is computed as interest - payment
refinance_month_swapped(balance, monthly_payment, monthly_rate) ==
    LET interest == RMul(balance, monthly_rate)
        princ == RSub(interest, monthly_payment)
        clamp == RLt(balance, princ)
        paid == IF clamp THEN balance ELSE princ
    IN  [Balance |-> RSub(balance, paid),
         Interest |-> interest,
         Payment |-> IF clamp THEN RAdd(interest, paid) ELSE monthly_payment]

\* lines 95-102: interest, principal part and payment of one month
refinance_month(balance, monthly_payment, monthly_rate) ==
    LET interest == RMul(balance, monthly_rate)
        princ == RSub(monthly_payment, interest)
        clamp == RLt(balance, princ)
        paid == IF clamp THEN balance ELSE princ
    IN  [Balance |-> RSub(balance, paid),
         Interest |-> interest,
         Payment |-> IF clamp THEN RAdd(interest, paid) ELSE monthly_payment]

\* lines 103-110: the row appended in local month m
refinance_row(step, m, start_month, cum_int, cum_pay) ==
    [Month |-> start_month + m,
     Balance |-> step.Balance,
     Interest |-> step.Interest,
     Payment |-> step.Payment,
     CumulativeInterest |-> RAdd(cum_int, step.Interest),
     CumulativePayment |-> RAdd(cum_pay, step.Payment)]

RECURSIVE refinance_loop(_, _, _, _, _, _, _, _, _)
refinance_loop(rows, balance, m, n_payments, monthly_payment, monthly_rate, start_month, cum_int, cum_pay) ==
    IF m \notin 1..n_payments THEN rows
    ELSE LET step == refinance_month(balance, monthly_payment, monthly_rate)
             row == refinance_row(step, m, start_month, cum_int, cum_pay)
         IN  IF RLe(row.Balance, Zero) THEN Append(rows, row)
             ELSE refinance_loop(Append(rows, row), row.Balance, m + 1,
                                 n_payments, monthly_payment, monthly_rate,
                                 start_month, row.CumulativeInterest,
                                 row.CumulativePayment)

\* the accumulators start at zero, the offsets are dropped
refinance_start_zero(cum_interest_offset, cum_payment_offset) ==
    [cum_int |-> Zero, cum_pay |-> Zero]

\* lines 91-93: the accumulators start at the supplied offsets
refinance_start(cum_interest_offset, cum_payment_offset) ==
    [cum_int |-> cum_interest_offset, cum_pay |-> cum_payment_offset]

amortization_refinance(principal, annual_interest_rate, years, monthly_payment, start_month, cum_interest_offset, cum_payment_offset) ==
    LET monthly_rate == RDiv(annual_interest_rate, RInt(12))
        n_payments == RFloor(RMul(years, RInt(12)))
        acc == refinance_start(cum_interest_offset, cum_payment_offset)
    IN  Returned(refinance_loop(<<>>, principal, 1, n_payments, monthly_payment,
                                monthly_rate, start_month, acc.cum_int,
                                acc.cum_pay))

(* ---------------- the engine's functions, called on bounded inputs ------- *)
\* every call is a pure function of its arguments, so a behaviour makes one
\* call: the arguments are drawn, the function is applied, the result is kept
NoCall == [fn |-> "none"]

MainInit ==
    /\ pc = "start"
    /\ sliders = <<>>
    /\ baseline = <<>>
    /\ pre_refi = <<>>
    /\ snap = <<>>
    /\ new_std = Zero
    /\ refi_std = <<>>
    /\ refi_extra = <<>>

Init ==
    /\ call = NoCall
    /\ ret = Returned(<<>>)
    /\ MainInit

CallCalculateMonthlyPayment ==
    \E p \in 1..MaxPrincipal, r \in RateSet, y \in 1..MaxYears :
        /\ call = NoCall
        /\ call' = [fn |-> "calculate_monthly_payment", principal |-> RInt(p),
                    annual_interest_rate |-> RInt(r), years |-> RInt(y)]
        /\ ret' = LET v == calculate_monthly_payment(RInt(p), RInt(r), RInt(y))
                  IN  IF IsDivByZero(v) THEN ZeroDivisionError
                      ELSE Returned(<<[Payment |-> v]>>)
        /\ UNCHANGED mvars

CallAmortizationSchedule ==
    \E p \in 1..MaxPrincipal, r \in RateSet, y \in 1..MaxYears :
        /\ call = NoCall
        /\ call' = [fn |-> "amortization_schedule", principal |-> RInt(p),
                    annual_interest_rate |-> RInt(r), years |-> RInt(y)]
        /\ ret' = amortization_schedule(RInt(p), RInt(r), RInt(y))
        /\ UNCHANGED mvars

LumpMonths(y) == {None} \cup 0..(12 * y + 1)

CallAmortizationScheduleWithPayoffs ==
    \E p \in 1..MaxPrincipal, r \in RateSet, y \in 1..MaxYears,
       e \in 0..MaxExtra, a \in 0..MaxLump :
      \E lm \in LumpMonths(y) :
        /\ call = NoCall
        /\ call' = [fn |-> "amortization_schedule_with_payoffs",
                    principal |-> RInt(p), annual_interest_rate |-> RInt(r),
                    years |-> RInt(y), monthly_extra_payment |-> RInt(e),
                    lump_sum_month |-> lm, lump_sum_amount |-> RInt(a)]
        /\ ret' = amortization_schedule_with_payoffs(RInt(p), RInt(r), RInt(y),
                                                     RInt(e), lm, RInt(a))
        /\ UNCHANGED mvars

\* the remaining term is a fraction of a year: k months give k/12
CallAmortizationRefinance ==
    \E p \in 0..MaxPrincipal, r \in RateSet, k \in 0..(12 * MaxYears),
       mp \in 0..MaxPayment, sm \in {0, MaxStart},
       ci \in {0, MaxOffset}, cp \in {0, MaxOffset} :
        /\ call = NoCall
        /\ call' = [fn |-> "amortization_refinance", principal |-> RInt(p),
                    annual_interest_rate |-> RInt(r), years |-> Norm(k, 12),
                    monthly_payment |-> RInt(mp), start_month |-> sm,
                    cum_interest_offset |-> RInt(ci),
                    cum_payment_offset |-> RInt(cp)]
        /\ ret' = amortization_refinance(RInt(p), RInt(r), Norm(k, 12), RInt(mp),
                                         sm, RInt(ci), RInt(cp))
        /\ UNCHANGED mvars

Next ==
    \/ CallCalculateMonthlyPayment
    \/ CallAmortizationSchedule
    \/ CallAmortizationScheduleWithPayoffs
    \/ CallAmortizationRefinance

Spec == Init /\ [][Next]_vars

(* ---------------- main ---------------- *)
\* DataFrame.iloc[i]: 0-based, a negative position counts from the end
Iloc(df, i) == IF i >= 0 THEN df[i + 1] ELSE df[Len(df) + i + 1]

\* numpy.float64 arithmetic: nan and inf propagate
NpAdd(x, y) == IF IsDivByZero(x) THEN x ELSE RAdd(x, y)

\* lines 125-135: the sliders (principal, rates and amounts on the model's
\* scale; the lump-sum month ranges over 0..years*12 as the slider does)
MainSliders ==
    /\ pc = "start"
    /\ \E p \in 1..MaxPrincipal, rb \in PositiveRates, ra \in PositiveRates,
          y \in MainYears, eb \in 0..MaxExtra, ea \in 0..MaxExtra,
          a \in 0..MaxLump :
         \E lm \in 0..(y * 12) :
            sliders' = [principal |-> RInt(p), rate_before |-> RInt(rb),
                        rate_after |-> RInt(ra), years |-> y,
                        extra_before |-> RInt(eb), extra_after |-> RInt(ea),
                        lump_month |-> lm, lump_amount |-> RInt(a)]
    /\ pc' = "schedules"
    /\ UNCHANGED <<call, ret, baseline, pre_refi, snap, new_std, refi_std, refi_extra>>

\* lines 137-142: original payment, baseline and pre-refinance schedules
MainSchedules ==
    /\ pc = "schedules"
    /\ LET orig_payment == calculate_monthly_payment(sliders.principal,
                               sliders.rate_before, RInt(sliders.years))
           b == amortization_schedule(sliders.principal, sliders.rate_before,
                                      RInt(sliders.years))
           pre == amortization_schedule_with_payoffs(sliders.principal,
                      sliders.rate_before, RInt(sliders.years),
                      sliders.extra_before, sliders.lump_month,
                      sliders.lump_amount)
       IN  IF IsDivByZero(orig_payment) \/ b.raised \/ pre.raised
           THEN /\ pc' = "ZeroDivisionError"
                /\ UNCHANGED <<baseline, pre_refi>>
           ELSE /\ pc' = "snapshot"
                /\ baseline' = b.value
                /\ pre_refi' = pre.value
    /\ UNCHANGED <<call, ret, sliders, snap, new_std, refi_std, refi_extra>>

\* lines 144-151: the state carried over the refinance
MainSnapshot ==
    /\ pc = "snapshot"
    /\ LET lump_month == sliders.lump_month
           pre == IF lump_month <= Len(pre_refi)
                  THEN Iloc(pre_refi, lump_month - 1)
                  ELSE Iloc(pre_refi, -1)
       IN  snap' = [bal_post |-> pre.Balance,
                    cum_int_pre |-> pre.CumulativeInterest,
                    cum_pay_pre |-> pre.CumulativePayment,
                    rem_years |-> RSub(RInt(sliders.years), Norm(lump_month, 12))]
    /\ pc' = "refinance"
    /\ UNCHANGED <<call, ret, sliders, baseline, pre_refi, new_std, refi_std, refi_extra>>

\* lines 153-161: the refinanced payment and the two continuations; bal_post
\* is a numpy.float64, so a zero divisor gives nan or inf and nothing raises
MainRefinance ==
    /\ pc = "refinance"
    /\ LET std == calculate_monthly_payment(snap.bal_post, sliders.rate_after,
                                            snap.rem_years)
           new_std_plus == NpAdd(std, sliders.extra_after)
       IN  /\ new_std' = std
           /\ refi_std' = amortization_refinance(snap.bal_post,
                              sliders.rate_after, snap.rem_years, std,
                              sliders.lump_month, snap.cum_int_pre,
                              snap.cum_pay_pre).value
           /\ refi_extra' = amortization_refinance(snap.bal_post,
                                sliders.rate_after, snap.rem_years, new_std_plus,
                                sliders.lump_month, snap.cum_int_pre,
                                snap.cum_pay_pre).value
    /\ pc' = "plots"
    /\ UNCHANGED <<call, ret, sliders, baseline, pre_refi, snap>>

main == MainSliders \/ MainSchedules \/ MainSnapshot \/ MainRefinance

SpecMain == Init /\ [][main]_vars

(* ---------------- properties of the three schedule functions ------------- *)
ScheduleFns == {"amortization_schedule", "amortization_schedule_with_payoffs",
                "amortization_refinance"}

IsSchedule(fn) == call.fn = fn /\ ~ret.raised

\* principal > 0, rate > 0, term > 0
ValidTerms ==
    /\ RLt(Zero, call.principal)
    /\ RLt(Zero, call.annual_interest_rate)
    /\ RLt(Zero, call.years)

Rows == ret.value
maxMonths == RFloor(RMul(call.years, RInt(12)))
MonthlyRate == RDiv(call.annual_interest_rate, RInt(12))

\* the balance a month starts from: the previous closing balance
Opening(i) == IF i = 1 THEN call.principal ELSE Rows[i - 1].Balance

Baseline == amortization_schedule(call.principal, call.annual_interest_rate, call.years)

\* C1: on valid terms no record of a returned schedule has a negative
\* closing balance, only the last record may close at 0, and the schedule
\* has at most maxMonths records.
C1_NoRecordAfterPayoff ==
    (call.fn \in ScheduleFns /\ ValidTerms /\ ~ret.raised) =>
        /\ Len(Rows) <= maxMonths
        /\ \A i \in 1..Len(Rows) :
              /\ RLe(Zero, Rows[i].Balance)
              /\ Rows[i].Balance = Zero => i = Len(Rows)

C1_Witness ==
    /\ IsSchedule("amortization_schedule_with_payoffs")
    /\ ValidTerms
    /\ Len(Rows) > 1
    /\ Len(Rows) < maxMonths
    /\ Rows[Len(Rows)].Balance = Zero

\* C2: with the same principal, rate and term, the schedule with extras and
\* a lump sum has at most as many records as the baseline schedule.
C2_PayoffBound ==
    (IsSchedule("amortization_schedule_with_payoffs") /\ ValidTerms) =>
        Len(Rows) <= Len(Baseline.value)

C2_Witness ==
    /\ IsSchedule("amortization_schedule_with_payoffs")
    /\ ValidTerms
    /\ RLt(Zero, call.monthly_extra_payment)
    /\ Len(Rows) < Len(Baseline.value)

\* C3: a lump sum in month m of 1..maxMonths that is at least the balance
\* the month starts from, on a loan not paid off before m, gives a schedule
\* of exactly m records whose last closing balance is 0.
C3_ClampCorrectness ==
    (/\ IsSchedule("amortization_schedule_with_payoffs")
     /\ ValidTerms
     /\ call.lump_sum_month \in 1..maxMonths
     /\ Len(Rows) >= call.lump_sum_month
     /\ RLe(Opening(call.lump_sum_month), call.lump_sum_amount)) =>
        /\ Len(Rows) = call.lump_sum_month
        /\ Rows[Len(Rows)].Balance = Zero

C3_Witness ==
    /\ IsSchedule("amortization_schedule_with_payoffs")
    /\ ValidTerms
    /\ call.lump_sum_month \in 2..maxMonths
    /\ call.monthly_extra_payment = Zero
    /\ Len(Rows) = call.lump_sum_month
    /\ RLe(Opening(call.lump_sum_month), call.lump_sum_amount)

\* C6: the k-th record of a refinance schedule has month start_month + k and
\* cumulative interest / payment equal to the offsets plus the interest /
\* payments of records 1..k.
C6_StitchContinuity ==
    IsSchedule("amortization_refinance") =>
      LET interest_paid == CumSum(Rows, "Interest", Len(Rows))
          payments_made == CumSum(Rows, "Payment", Len(Rows))
      IN  \A k \in 1..Len(Rows) :
            /\ Rows[k].Month = call.start_month + k
            /\ Rows[k].CumulativeInterest =
                   RAdd(call.cum_interest_offset, interest_paid[k])
            /\ Rows[k].CumulativePayment =
                   RAdd(call.cum_payment_offset, payments_made[k])
            /\ RLe(call.cum_interest_offset, Rows[1].CumulativeInterest)

C6_Witness ==
    /\ IsSchedule("amortization_refinance")
    /\ Len(Rows) >= 2
    /\ call.start_month > 0
    /\ RLt(Zero, call.cum_interest_offset)
    /\ RLt(Zero, call.cum_payment_offset)
    /\ RLt(Zero, Rows[1].Interest)

\* every closing balance is strictly below the balance the month started from
StrictlyDecreasing ==
    \A i \in 1..Len(Rows) :
        /\ RLt(Rows[i].Balance, Opening(i))
        /\ RLe(Rows[i].Balance, call.principal)

\* C7 as stated: on valid terms, with any monthly payment >= 0, the closing
\* balances of each of the three schedules decrease strictly.
C7_MonotonicityAsStated ==
    (call.fn \in ScheduleFns /\ ValidTerms /\ ~ret.raised) => StrictlyDecreasing

\* C7 amended: the same, where for amortization_refinance the monthly payment
\* exceeds the first month's interest, principal * rate / 12.
C7_Monotonicity ==
    (/\ call.fn \in ScheduleFns
     /\ ValidTerms
     /\ ~ret.raised
     /\ call.fn = "amortization_refinance" =>
            RLt(RMul(call.principal, MonthlyRate), call.monthly_payment)) =>
        StrictlyDecreasing

C7_Witness ==
    /\ IsSchedule("amortization_refinance")
    /\ ValidTerms
    /\ RLt(RMul(call.principal, MonthlyRate), call.monthly_payment)
    /\ Len(Rows) >= 2

\* no lump sum takes effect: month None, 0 or past the term, or amount 0
NoEffectiveLump ==
    \/ call.lump_sum_month \in {None, 0}
    \/ call.lump_sum_month \notin 1..maxMonths
    \/ call.lump_sum_amount = Zero

\* C8: with monthly extra 0 and no effective lump sum the schedule with
\* payoffs is the baseline schedule, record by record, with scheduled
\* principal equal to the baseline principal and extra principal 0.
C8_ZeroExtraEquivalence ==
    (/\ call.fn = "amortization_schedule_with_payoffs"
     /\ call.monthly_extra_payment = Zero
     /\ NoEffectiveLump) =>
        LET base == Baseline
        IN  /\ ret.raised = base.raised
            /\ ~ret.raised =>
              /\ Len(Rows) = Len(base.value)
              /\ \A i \in 1..Len(Rows) :
                    LET b == base.value[i]
                    IN  /\ Rows[i].Month = b.Month
                        /\ Rows[i].Balance = b.Balance
                        /\ Rows[i].Interest = b.Interest
                        /\ Rows[i].Payment = b.Payment
                        /\ Rows[i].CumulativeInterest = b.CumulativeInterest
                        /\ Rows[i].CumulativePayment = b.CumulativePayment
                        /\ Rows[i].ScheduledPrincipal = b.Principal
                        /\ Rows[i].ExtraPrincipal = Zero

C8_Witness ==
    /\ IsSchedule("amortization_schedule_with_payoffs")
    /\ call.monthly_extra_payment = Zero
    /\ call.lump_sum_month = 0
    /\ RLt(Zero, call.lump_sum_amount)
    /\ Len(Rows) = maxMonths

\* C9 as stated: at annual rate 0 calculate_monthly_payment returns
\* principal / (years * 12).
C9_DegenerateRate ==
    (/\ call.fn = "calculate_monthly_payment"
     /\ call.annual_interest_rate = Zero) =>
        /\ ~ret.raised
        /\ ret.value[1].Payment = RDiv(call.principal, RMul(call.years, RInt(12)))

\* the extra the strategy asks for in month i, before any clamp
NominalExtra(i) ==
    IF call.lump_sum_month = i
    THEN RAdd(call.monthly_extra_payment, call.lump_sum_amount)
    ELSE call.monthly_extra_payment

BasePayment ==
    calculate_monthly_payment(call.principal, call.annual_interest_rate, call.years)

\* C10: in every record of the schedule with payoffs, scheduled + extra
\* principal is the drop in balance, payment is interest + scheduled + extra,
\* extra >= 0 and scheduled <= principal paid; where the nominal principal
\* exceeds the balance, the principal paid is the opening balance and the
\* payment is below the nominal scheduled-plus-extra payment.
C10_ClampSplit ==
    (IsSchedule("amortization_schedule_with_payoffs") /\ ValidTerms) =>
      LET base_payment == BasePayment
      IN  \A i \in 1..Len(Rows) :
            LET paid == RSub(Opening(i), Rows[i].Balance)
                nominal == RAdd(base_payment, NominalExtra(i))
            IN  /\ RAdd(Rows[i].ScheduledPrincipal, Rows[i].ExtraPrincipal) = paid
                /\ Rows[i].Payment = RAdd(Rows[i].Interest, paid)
                /\ RLe(Zero, Rows[i].ExtraPrincipal)
                /\ RLe(Rows[i].ScheduledPrincipal, paid)
                /\ RLt(Opening(i), RSub(nominal, Rows[i].Interest)) =>
                      /\ paid = Opening(i)
                      /\ RLt(Rows[i].Payment, nominal)

C10_Witness ==
    /\ IsSchedule("amortization_schedule_with_payoffs")
    /\ ValidTerms
    /\ \E i \in 2..Len(Rows) :
          /\ RLt(Opening(i), RSub(RAdd(BasePayment, NominalExtra(i)), Rows[i].Interest))
          /\ RLt(Zero, Rows[i].ExtraPrincipal)
          /\ RLt(Rows[i].ExtraPrincipal, NominalExtra(i))

(* ---------------- properties of main's composition ---------------------- *)
Snapshotted == pc \in {"refinance", "plots"}

\* C4 as stated: main carries over the pre-refinance balance and cumulative
\* totals as they stand after t months: the principal and zero totals for
\* t = 0, record t for t within the schedule, and the last record's totals
\* with a balance of 0 for t past the schedule's end.
C4_TransitionSnapshot ==
    Snapshotted =>
        LET t == sliders.lump_month
            last == pre_refi[Len(pre_refi)]
        IN  IF t = 0
            THEN /\ snap.bal_post = sliders.principal
                 /\ snap.cum_int_pre = Zero
                 /\ snap.cum_pay_pre = Zero
            ELSE IF t <= Len(pre_refi)
            THEN /\ snap.bal_post = pre_refi[t].Balance
                 /\ snap.cum_int_pre = pre_refi[t].CumulativeInterest
                 /\ snap.cum_pay_pre = pre_refi[t].CumulativePayment
            ELSE /\ snap.bal_post = Zero
                 /\ snap.cum_int_pre = last.CumulativeInterest
                 /\ snap.cum_pay_pre = last.CumulativePayment

\* C5 as stated: when the pre-refinance schedule has reached a zero balance
\* by the refinance month, both continuations are empty schedules, so the
\* totals after the refinance are the final pre-refinance totals.
C5_RefinanceNoOp ==
    (/\ pc = "plots"
     /\ sliders.lump_month >= 1
     /\ pre_refi[Len(pre_refi)].Balance = Zero
     /\ Len(pre_refi) <= sliders.lump_month) =>
        /\ snap.bal_post = Zero
        /\ snap.cum_int_pre = pre_refi[Len(pre_refi)].CumulativeInterest
        /\ snap.cum_pay_pre = pre_refi[Len(pre_refi)].CumulativePayment
        /\ Len(refi_std) = 0
        /\ Len(refi_extra) = 0

====
